---------------------------- MODULE Spec2Model ----------------------------
(* A model of the visit-ingestion servers of landing_page: src/app.py (the   *)
(* FastAPI server) and src/server.py (the http.server one).  One process is  *)
(* modelled: its module initialisation (backend selection), its request      *)
(* threads (ingestion and stats), the two `visits` tables, the log file and  *)
(* the lock DB_LOCK.  Failures of the collector, the file system and the     *)
(* database engines are inputs chosen by the environment.                    *)
EXTENDS Integers, Sequences, FiniteSets, TLC

(* ------------------------------ bounds ---------------------------------- *)
\* request threads of the process
NumThreads == 2
\* requests accepted over one run
MaxRequests == 2
\* UTC days the clock runs through
MaxDay == 2

Threads == 1..NumThreads
Days == 1..MaxDay

(* --------------------------- input domains ------------------------------ *)
Servers == {"app", "server"}
Absent == "<absent>"
\* a timestamp value: the ISO-8601 string of an instant of day `day`
\* ("<day>T..Z"), or a number of epoch seconds falling on day `day`
IsoTs(d) == [fmt |-> "iso", day |-> d]
EpochTs(d) == [fmt |-> "epoch", day |-> d]
NoTs == [fmt |-> "absent", day |-> 0]
\* a numeric key of an entry: missing, or holding the number n
NoNum == [present |-> FALSE, n |-> 0]
Num(n) == [present |-> TRUE, n |-> n]
\* the address of the peer of the connection
PeerAddr == "198.51.100.9"
\* an x-forwarded-for header: the pieces between its commas, each a text
\* with or without blanks around it; NoHeader when the request has none
Piece(text, blanks) == [text |-> text, blanks |-> blanks]
NoHeader == << >>
ProxiedHeader == << Piece("203.0.113.7", FALSE), Piece("10.0.0.1", TRUE) >>
BlankFirstHeader == << Piece("", TRUE), Piece("10.0.0.1", FALSE) >>
\* the GET requests: the query parameters event and sid, and the header
GetParams ==
    { << "visit", "s1", NoHeader >>, << "exit", "s2", ProxiedHeader >> }
\* the path both servers ingest on
VisitPath == "/api/visit"
\* a body of kind k that carries no key
EmptyBody(k) ==
    [kind |-> k, event |-> Absent, sessionId |-> Absent, ts |-> NoTs,
     method |-> Absent, requestPath |-> Absent, path |-> Absent,
     ip |-> Absent,
     sessionStarted |-> NoNum]
\* POST bodies: not JSON at all, JSON that is no object, the empty object,
\* an object with a path, a sessionStarted and a ts of its own (epoch
\* seconds), and an object with keys named method and requestPath
PostObjects ==
    { EmptyBody("object") }
    \cup { [EmptyBody("object") EXCEPT !.event = "click", !.sessionId = "s1",
                                       !.path = "/pricing",
                                       !.sessionStarted = Num(1),
                                       !.ts = EpochTs(d)] : d \in Days }
    \cup { [EmptyBody("object") EXCEPT !.method = "PUT",
                                       !.requestPath = "/other"] }
\* no body was read: not a POST
NoBody == EmptyBody("none")
\* the header a POST arrives with: through a proxy when it carries an event,
\* with a blank first piece when its body is the empty object
HeaderOf(b) ==
    IF b.event # Absent THEN ProxiedHeader
    ELSE IF b = EmptyBody("object") THEN BlankFirstHeader
    ELSE NoHeader
PostBodies ==
    { EmptyBody(k) : k \in {"malformed", "nonobject"} } \cup PostObjects

VARIABLES
    server,         \* which of the two servers this process runs
    POSTGRES_DSN,   \* TRUE when the connection string is configured
    LOGTAIL_TOKEN,  \* TRUE when the collector token is configured
    initpc,         \* position of module initialisation
    pgInit,         \* how the Postgres attempt of initialisation ended
    PG_CONN,        \* "None" or "conn"
    SQLITE_CONN,    \* "None" or "conn"
    DB_LOCK,        \* 0 when free, else the thread that holds it
    pgTable,        \* rows of visits in the networked database
    sqliteTable,    \* rows of visits seen through the embedded connection
    logFile,        \* lines of logs/visits.log, one entry each
    today,          \* the current UTC date
    nreq,           \* requests accepted so far
    pc,             \* per thread: position in its handler
    req,            \* per thread: "none", "GET", "POST" or "stats"
    xff,            \* per thread: the x-forwarded-for header of its request
    body,           \* per thread: the body of its POST request
    entry,          \* per thread: the event record built by the handler
    called,         \* per thread: the sinks invoked, in order
    fault,          \* per thread: the steps the environment made fail
    dbUsed,         \* per thread: the connection its database step used
    dbResult,       \* per thread: "none", "ok" or "error" of the insert
    response,       \* per thread: "none", a status code or "exception"
    stats,          \* per thread: the record get_stats is filling
    statsDay,       \* per thread: `today` as get_stats read it
    qi              \* per thread: the next of the seven queries

vars == << server, POSTGRES_DSN, LOGTAIL_TOKEN, initpc, pgInit, PG_CONN,
           SQLITE_CONN, DB_LOCK, pgTable, sqliteTable, logFile, today, nreq,
           pc, req, xff, body, entry, called, fault, dbUsed, dbResult,
           response, stats, statsDay, qi >>

config == << server, POSTGRES_DSN, LOGTAIL_TOKEN >>
conns == << PG_CONN, SQLITE_CONN >>
initv == << initpc, pgInit >>
stores == << pgTable, sqliteTable, logFile >>
statv == << stats, statsDay, qi >>

NoEntry == [ts |-> IsoTs(1), method |-> "none", ip |-> Absent,
            requestPath |-> Absent,
            path |-> Absent, referrer |-> Absent, userAgent |-> Absent,
            event |-> Absent, sessionId |-> Absent, utm |-> Absent,
            sessionStarted |-> NoNum]
ZeroStats == [totalEvents |-> 0, visits |-> 0, clicks |-> 0, exits |-> 0,
              uniqueSessions |-> 0, visitsToday |-> 0, clicksToday |-> 0]
StatKeys == << "totalEvents", "visits", "clicks", "exits", "uniqueSessions",
               "visitsToday", "clicksToday" >>
NumQueries == Len(StatKeys)

Init ==
    /\ server \in Servers
    /\ POSTGRES_DSN \in BOOLEAN
    /\ LOGTAIL_TOKEN \in BOOLEAN
    /\ initpc = "pg"
    /\ pgInit = "pending"
    /\ PG_CONN = "None"
    /\ SQLITE_CONN = "None"
    /\ DB_LOCK = 0
    /\ pgTable = << >>
    /\ sqliteTable = << >>
    /\ logFile = << >>
    /\ today = 1
    /\ nreq = 0
    /\ pc = [t \in Threads |-> "idle"]
    /\ req = [t \in Threads |-> "none"]
    /\ xff = [t \in Threads |-> NoHeader]
    /\ body = [t \in Threads |-> NoBody]
    /\ entry = [t \in Threads |-> NoEntry]
    /\ called = [t \in Threads |-> << >>]
    /\ fault = [t \in Threads |-> {}]
    /\ dbUsed = [t \in Threads |-> "none"]
    /\ dbResult = [t \in Threads |-> "none"]
    /\ response = [t \in Threads |-> "none"]
    /\ stats = [t \in Threads |-> ZeroStats]
    /\ statsDay = [t \in Threads |-> 1]
    /\ qi = [t \in Threads |-> 1]

(* ----------------------- module initialisation -------------------------- *)
\* the statements of the try block that can raise
PgInitSteps == {"import", "connect", "create"}

\* an except clause that does not reset PG_CONN: the connection made before
\* a failed CREATE TABLE stays
PgConnAfter_KeepOnCreate(failedAt) ==
    IF failedAt \in {"none", "create"} THEN "conn" ELSE "None"

\* PG_CONN after the try block and its except clause: psycopg.connect has
\* assigned it when the CREATE TABLE raises, and the except clause resets it
PgConnAfter(failedAt) == IF failedAt = "none" THEN "conn" ELSE "None"

\* `except Exception` catches whatever the three statements raise
\* (ImportError and psycopg.Error are both Exceptions)
PgInitCaught(failedAt) == TRUE

\* the try block of module initialisation: nothing happens without a DSN;
\* with one, the import, the connect or the CREATE TABLE may raise, which
\* is caught and printed
InitPostgres ==
    /\ initpc = "pg"
    /\ \E failedAt \in PgInitSteps \cup {"none"} :
         /\ pgInit' = IF ~POSTGRES_DSN THEN "unset"
                      ELSE IF failedAt = "none" THEN "ok" ELSE "failed"
         /\ PG_CONN' = IF POSTGRES_DSN THEN PgConnAfter(failedAt) ELSE "None"
         /\ initpc' = IF POSTGRES_DSN /\ ~PgInitCaught(failedAt)
                      THEN "raised_pg" ELSE "sqlite"
    /\ UNCHANGED << config, SQLITE_CONN, DB_LOCK, stores, today, nreq, pc,
                    req, xff, body, entry, called, fault, dbUsed, dbResult,
                    response, statv >>

\* an initialisation that opens the embedded database unconditionally
NeedsSqlite_Always(pg) == TRUE

\* whether module initialisation opens the embedded database
NeedsSqlite(pg) == pg = "None"

\* `if PG_CONN is None: SQLITE_CONN = init_sqlite()`; init_sqlite is not
\* guarded, so its failure ends the process
InitSqlite ==
    /\ initpc = "sqlite"
    /\ IF NeedsSqlite(PG_CONN)
       THEN \E ok \in BOOLEAN :
              /\ SQLITE_CONN' = IF ok THEN "conn" ELSE "None"
              /\ initpc' = IF ok THEN "ready" ELSE "raised_sqlite"
       ELSE /\ initpc' = "ready"
            /\ UNCHANGED SQLITE_CONN
    /\ UNCHANGED << config, pgInit, PG_CONN, DB_LOCK, stores, today, nreq, pc,
                    req, xff, body, entry, called, fault, dbUsed, dbResult,
                    response, statv >>

(* ------------------------------ requests -------------------------------- *)
Idle(t) == pc[t] \in {"idle", "done"}

\* visit_post is a coroutine that calls persist without awaiting: until it
\* returns, the event loop of the FastAPI server runs nothing else, neither
\* another visit_post nor the dispatch of a new request to a worker thread
LoopFree(t) == \A u \in Threads \ {t} : req[u] = "POST" => Idle(u)

\* src/server.py serves with HTTPServer, one request at a time; the FastAPI
\* server runs visit_get and stats on worker threads, side by side, and
\* dispatches a request when its event loop is free
MayStart(t) ==
    /\ initpc = "ready"
    /\ Idle(t)
    /\ nreq < MaxRequests
    /\ server = "server" => \A u \in Threads : Idle(u)
    /\ server = "app" => LoopFree(t)

\* dict.update for one key: a key of the payload replaces the server's value
Merge(mine, theirs) == IF theirs = Absent THEN mine ELSE theirs
MergeTs(mine, theirs) == IF theirs = NoTs THEN mine ELSE theirs
MergeNum(mine, theirs) == IF theirs = NoNum THEN mine ELSE theirs

\* the payload a POST handler works with: the FastAPI handler replaces an
\* unparseable body by {}; a payload that is no dict is not merged
PayloadOf(b) == IF b.kind = "object" THEN b ELSE EmptyBody("object")

\* headers.get("x-forwarded-for", "").split(","): a missing header gives
\* the one piece ""
SplitHeader(h) == IF h = NoHeader THEN << Piece("", FALSE) >> ELSE h
\* str.strip
Strip(piece) == piece.text

\* the ip of the entry: src/server.py takes the first piece of the header,
\* stripped, or the peer address when that is empty; src/app.py takes
\* request.client.host and reads no header
ClientIp(srv, h, peer) ==
    IF srv = "server"
    THEN IF Strip(Head(SplitHeader(h))) # ""
         THEN Strip(Head(SplitHeader(h))) ELSE peer
    ELSE peer

\* entry.setdefault(key, default)
SetDefault(v, default) == IF v = Absent THEN default ELSE v

\* the entry of a POST: the server's ts, method and requestPath, then
\* entry.update(payload), then setdefault for path, referrer and userAgent;
\* the keys event, sessionId, utm and sessionStarted exist only when the
\* payload carries them
PostEntry(srv, day, h, b) ==
    [ts |-> MergeTs(IsoTs(day), PayloadOf(b).ts),
     method |-> Merge("POST", PayloadOf(b).method),
     ip |-> Merge(ClientIp(srv, h, PeerAddr), PayloadOf(b).ip),
     requestPath |-> Merge(VisitPath, PayloadOf(b).requestPath),
     path |-> SetDefault(Merge(Absent, PayloadOf(b).path), ""),
     referrer |-> SetDefault(Absent, ""),
     userAgent |-> SetDefault(Absent, ""),
     event |-> Merge(Absent, PayloadOf(b).event),
     sessionId |-> Merge(Absent, PayloadOf(b).sessionId),
     utm |-> Absent,
     sessionStarted |-> MergeNum(NoNum, PayloadOf(b).sessionStarted)]

\* the entry of a GET: the query parameters, "" for a missing one; the
\* handler sets no sessionStarted key
GetEntry(srv, day, h, ev, sid) ==
    [ts |-> IsoTs(day), method |-> "GET", ip |-> ClientIp(srv, h, PeerAddr),
     requestPath |-> VisitPath,
     path |-> "", referrer |-> "", userAgent |-> "",
     event |-> ev, sessionId |-> sid, utm |-> "",
     sessionStarted |-> NoNum]

\* src/server.py answers 400 to a body json.loads rejects
RejectsBody(srv, b) == srv = "server" /\ b.kind = "malformed"

Begin(t, kind, e, nextpc) ==
    /\ nreq' = nreq + 1
    /\ req' = [req EXCEPT ![t] = kind]
    /\ entry' = [entry EXCEPT ![t] = e]
    /\ pc' = [pc EXCEPT ![t] = nextpc]
    /\ called' = [called EXCEPT ![t] = << >>]
    /\ fault' = [fault EXCEPT ![t] = {}]
    /\ dbUsed' = [dbUsed EXCEPT ![t] = "none"]
    /\ dbResult' = [dbResult EXCEPT ![t] = "none"]
    /\ stats' = [stats EXCEPT ![t] = ZeroStats]
    /\ statsDay' = [statsDay EXCEPT ![t] = today]
    /\ qi' = [qi EXCEPT ![t] = 1]
    /\ UNCHANGED << config, initv, conns, DB_LOCK, stores, today >>

\* visit_get / the ingestion branch of Handler.do_GET, up to the first sink
StartGet(t) ==
    /\ MayStart(t)
    /\ \E q \in GetParams :
         /\ Begin(t, "GET", GetEntry(server, today, q[3], q[1], q[2]),
                  "remote")
         /\ xff' = [xff EXCEPT ![t] = q[3]]
    /\ body' = [body EXCEPT ![t] = NoBody]
    /\ response' = [response EXCEPT ![t] = "none"]

\* visit_post / Handler.do_POST, up to the first sink
StartPost(t) ==
    /\ MayStart(t)
    /\ LoopFree(t)
    /\ \E b \in PostBodies :
         /\ body' = [body EXCEPT ![t] = b]
         /\ xff' = [xff EXCEPT ![t] = HeaderOf(b)]
         /\ IF RejectsBody(server, b)
            THEN /\ Begin(t, "POST", NoEntry, "done")
                 /\ response' = [response EXCEPT ![t] = "400"]
            ELSE /\ Begin(t, "POST", PostEntry(server, today, HeaderOf(b), b),
                         "remote")
                 /\ response' = [response EXCEPT ![t] = "none"]

\* the sinks of one ingestion request, in the order the handlers call them
SinkOrder == << "remote", "file", "db" >>
\* a handler that answers right after the file append
PcAfter_SkipDb(sink) ==
    CASE sink = "remote" -> "file"
      [] sink = "file" -> "respond"
      [] sink = "db" -> "respond"
PcAfter(sink) ==
    CASE sink = "remote" -> "file"
      [] sink = "file" -> "db"
      [] sink = "db" -> "respond"

\* send_to_logtail: returns at once without a token; otherwise urlopen with
\* a 2 second timeout, whose failure is caught and printed
SendToLogtail(t) ==
    /\ pc[t] = "remote"
    /\ called' = [called EXCEPT ![t] = Append(@, "remote")]
    /\ \E fails \in BOOLEAN :
         fault' = [fault EXCEPT ![t] =
                     IF LOGTAIL_TOKEN /\ fails THEN @ \cup {"remote"} ELSE @]
    /\ pc' = [pc EXCEPT ![t] = PcAfter("remote")]
    /\ UNCHANGED << config, initv, conns, DB_LOCK, stores, today, nreq, req,
                    xff, body, entry, dbUsed, dbResult, response, statv >>

\* whether append_file catches the failure of its write
FileErrorCaught(srv) == srv = "app"

\* append_file: one line appended; src/app.py catches a failure, src/server.py
\* lets it leave the handler
AppendFile(t) ==
    /\ pc[t] = "file"
    /\ called' = [called EXCEPT ![t] = Append(@, "file")]
    /\ \E fails \in BOOLEAN :
         IF ~fails
         THEN /\ logFile' = Append(logFile, entry[t])
              /\ pc' = [pc EXCEPT ![t] = PcAfter("file")]
              /\ UNCHANGED << fault, response >>
         ELSE /\ fault' = [fault EXCEPT ![t] = @ \cup {"file"}]
              /\ UNCHANGED logFile
              /\ IF FileErrorCaught(server)
                 THEN /\ pc' = [pc EXCEPT ![t] = PcAfter("file")]
                      /\ UNCHANGED response
                 ELSE /\ pc' = [pc EXCEPT ![t] = "done"]
                      /\ response' = [response EXCEPT ![t] = "exception"]
    /\ UNCHANGED << config, initv, conns, DB_LOCK, pgTable, sqliteTable, today,
                    nreq, req, xff, body, entry, dbUsed, dbResult, statv >>

(* ------------------------------ write_db -------------------------------- *)
\* entry.get(key, default)
Get(v, default) == IF v = Absent THEN default ELSE v

\* to_timestamp(%s): the one-argument to_timestamp takes epoch seconds, so an
\* ISO-8601 string is rejected (invalid input for double precision)
PgToTimestamp(ts) ==
    IF ts.fmt = "epoch" THEN [ok |-> TRUE, date |-> ts.day]
    ELSE [ok |-> FALSE, date |-> 0]

\* the row of the networked INSERT: ts as the date of the timestamptz, and
\* the payload column holding the whole entry
PgRow(e) ==
    [ts |-> PgToTimestamp(e.ts).date, event |-> Get(e.event, ""),
     sessionId |-> Get(e.sessionId, ""), payload |-> e]

\* the TEXT column ts of the embedded table, as LIKE '<date>%' reads it: the
\* date an ISO-8601 string starts with, 0 for the digits of a number
SqliteTsText(ts) == IF ts.fmt = "iso" THEN ts.day ELSE 0

SqliteRow(e) ==
    [ts |-> SqliteTsText(e.ts), event |-> Get(e.event, ""),
     sessionId |-> Get(e.sessionId, ""), payload |-> e]

\* the networked INSERT: the row is added unless the statement fails
InsertPg(table, e, fails) ==
    IF ~fails /\ PgToTimestamp(e.ts).ok THEN Append(table, PgRow(e)) ELSE table

\* an INSERT OR REPLACE whose key every row shares
InsertSqlite_Replace(table, e) == << SqliteRow(e) >>

\* the embedded INSERT
InsertSqlite(table, e) == Append(table, SqliteRow(e))

\* write_db called once for each entry of a list, on an empty table
RECURSIVE WriteAllPg(_)
WriteAllPg(es) ==
    IF es = << >> THEN << >>
    ELSE InsertPg(WriteAllPg(SubSeq(es, 1, Len(es) - 1)), es[Len(es)], FALSE)

RECURSIVE WriteAllSqlite(_)
WriteAllSqlite(es) ==
    IF es = << >> THEN << >>
    ELSE InsertSqlite(WriteAllSqlite(SubSeq(es, 1, Len(es) - 1)), es[Len(es)])

\* a write_db without its try block
DbErrorCaught_Propagates(srv) == FALSE

\* whether write_db catches what its statements raise: in both servers the
\* whole body is inside `try: ... except Exception as e: print(...)`
DbErrorCaught(srv) == TRUE

\* where the handler of t goes when its write_db is over: on to the
\* response, unless an exception left write_db and with it the handler
DbStepEnds(t, raised) ==
    IF raised /\ ~DbErrorCaught(server)
    THEN /\ pc' = [pc EXCEPT ![t] = "done"]
         /\ response' = [response EXCEPT ![t] = "exception"]
    ELSE /\ pc' = [pc EXCEPT ![t] = PcAfter("db")]
         /\ UNCHANGED response

\* the networked branch of write_db: one autocommitted INSERT; any exception
\* is caught and printed
WriteDbPg(t) ==
    /\ pc[t] = "db"
    /\ PG_CONN # "None"
    /\ called' = [called EXCEPT ![t] = Append(@, "db")]
    /\ dbUsed' = [dbUsed EXCEPT ![t] = "pg"]
    /\ \E fails \in BOOLEAN :
         /\ fault' = [fault EXCEPT ![t] = IF fails THEN @ \cup {"db"} ELSE @]
         /\ pgTable' = InsertPg(pgTable, entry[t], fails)
         /\ dbResult' = [dbResult EXCEPT ![t] =
                           IF pgTable' # pgTable THEN "ok" ELSE "error"]
         /\ DbStepEnds(t, pgTable' = pgTable)
    /\ UNCHANGED << config, initv, conns, DB_LOCK, sqliteTable, logFile, today,
                    nreq, req, xff, body, entry, statv >>

\* a lock that never blocks
LockFree_Unchecked(lock) == TRUE

\* whether `with DB_LOCK` may be entered by a thread
LockFree(lock) == lock = 0

\* a lock given back after the first statement of the block
LockAfter_FirstStatement(lock, leaves, raised) == 0
\* a lock taken with acquire() and given back with a release() that an
\* exception skips
LockAfter_KeptOnError(lock, leaves, raised) ==
    IF leaves /\ ~raised THEN 0 ELSE lock

\* DB_LOCK after a statement inside `with DB_LOCK:`: still held while the
\* thread stays in the block, released when it leaves the block, by its end
\* or by an exception
LockAfter(lock, leaves, raised) == IF leaves THEN 0 ELSE lock

\* the embedded branch of write_db, entering `with DB_LOCK`
WriteDbLock(t) ==
    /\ pc[t] = "db"
    /\ PG_CONN = "None"
    /\ LockFree(DB_LOCK)
    /\ DB_LOCK' = t
    /\ called' = [called EXCEPT ![t] = Append(@, "db")]
    /\ dbUsed' = [dbUsed EXCEPT ![t] = "sqlite"]
    /\ pc' = [pc EXCEPT ![t] = "sq_insert"]
    /\ UNCHANGED << config, initv, conns, stores, today, nreq, req, xff, body,
                    entry, fault, dbResult, response, statv >>

\* SQLITE_CONN.execute(INSERT ...) under the lock; an exception leaves the
\* with block, which releases the lock, and is caught and printed
SqliteInsert(t) ==
    /\ pc[t] = "sq_insert"
    /\ \E fails \in BOOLEAN :
         IF ~fails
         THEN /\ sqliteTable' = InsertSqlite(sqliteTable, entry[t])
              /\ pc' = [pc EXCEPT ![t] = "sq_commit"]
              /\ DB_LOCK' = LockAfter(DB_LOCK, FALSE, FALSE)
              /\ UNCHANGED << fault, dbResult, response >>
         ELSE /\ fault' = [fault EXCEPT ![t] = @ \cup {"db"}]
              /\ dbResult' = [dbResult EXCEPT ![t] = "error"]
              /\ DB_LOCK' = LockAfter(DB_LOCK, TRUE, TRUE)
              /\ DbStepEnds(t, TRUE)
              /\ UNCHANGED sqliteTable
    /\ UNCHANGED << config, initv, conns, pgTable, logFile, today, nreq, req,
                    xff, body, entry, called, dbUsed, statv >>

\* the table after a failed commit: the engine rolls the statement back, or
\* leaves it in the open transaction of the connection
AfterFailedCommit(table, rolledBack) ==
    IF rolledBack THEN SubSeq(table, 1, Len(table) - 1) ELSE table

\* SQLITE_CONN.commit() and the end of the with block
SqliteCommit(t) ==
    /\ pc[t] = "sq_commit"
    /\ \E fails \in BOOLEAN, rolledBack \in BOOLEAN :
         /\ IF ~fails
            THEN /\ dbResult' = [dbResult EXCEPT ![t] = "ok"]
                 /\ UNCHANGED << sqliteTable, fault >>
            ELSE /\ fault' = [fault EXCEPT ![t] = @ \cup {"commit"}]
                 /\ dbResult' = [dbResult EXCEPT ![t] = "error"]
                 /\ sqliteTable' = AfterFailedCommit(sqliteTable, rolledBack)
         /\ DbStepEnds(t, fails)
         /\ DB_LOCK' = LockAfter(DB_LOCK, TRUE, fails)
    /\ UNCHANGED << config, initv, conns, pgTable, logFile, today, nreq, req,
                    xff, body, entry, called, dbUsed, statv >>

\* Response(status_code=204) / send_response(204)
Respond(t) ==
    /\ pc[t] = "respond"
    /\ response' = [response EXCEPT ![t] = "204"]
    /\ pc' = [pc EXCEPT ![t] = "done"]
    /\ UNCHANGED << config, initv, conns, DB_LOCK, stores, today, nreq, req,
                    xff, body, entry, called, fault, dbUsed, dbResult, statv >>

(* ------------------------------ get_stats ------------------------------- *)
\* the rows of a table
Rows(table) == {table[i] : i \in 1..Len(table)}

\* SELECT COUNT(*) FROM visits WHERE <the row is one of `matching`>
CountWhere(table, matching) ==
    Cardinality({i \in 1..Len(table) : table[i] \in matching})

\* SELECT COUNT(DISTINCT sessionId) FROM visits
CountDistinctSessions(table) ==
    Cardinality({table[i].sessionId : i \in 1..Len(table)})

IsVisit(r) == r.event = "visit"
IsClick(r) == r.event = "click"
IsExit(r) == r.event = "exit"

\* ts::date = current_date on a networked row
PgDateIs(r, day) == r.ts = day
\* ts LIKE '<today>%' on an embedded row
SqliteDateIs(r, day) == r.ts = day

\* the i-th query of the networked branch of get_stats
QueryPg(i, table, day) ==
    CASE i = 1 -> CountWhere(table, Rows(table))
      [] i = 2 -> CountWhere(table, {r \in Rows(table) : IsVisit(r)})
      [] i = 3 -> CountWhere(table, {r \in Rows(table) : IsClick(r)})
      [] i = 4 -> CountWhere(table, {r \in Rows(table) : IsExit(r)})
      [] i = 5 -> CountDistinctSessions(table)
      [] i = 6 -> CountWhere(table, {r \in Rows(table) :
                                       IsVisit(r) /\ PgDateIs(r, day)})
      [] i = 7 -> CountWhere(table, {r \in Rows(table) :
                                       IsClick(r) /\ PgDateIs(r, day)})

\* the i-th query of the embedded branch of get_stats
QuerySqlite(i, table, day) ==
    CASE i = 1 -> CountWhere(table, Rows(table))
      [] i = 2 -> CountWhere(table, {r \in Rows(table) : IsVisit(r)})
      [] i = 3 -> CountWhere(table, {r \in Rows(table) : IsClick(r)})
      [] i = 4 -> CountWhere(table, {r \in Rows(table) : IsExit(r)})
      [] i = 5 -> CountDistinctSessions(table)
      [] i = 6 -> CountWhere(table, {r \in Rows(table) :
                                       IsVisit(r) /\ SqliteDateIs(r, day)})
      [] i = 7 -> CountWhere(table, {r \in Rows(table) :
                                       IsClick(r) /\ SqliteDateIs(r, day)})

\* the record of a get_stats call whose seven queries return q[1..7]
StatsRecord(q) ==
    [totalEvents |-> q[1], visits |-> q[2], clicks |-> q[3], exits |-> q[4],
     uniqueSessions |-> q[5], visitsToday |-> q[6], clicksToday |-> q[7]]

\* get_stats against the networked table / the embedded table
GetStatsPg(table, day) ==
    StatsRecord([i \in 1..NumQueries |-> QueryPg(i, table, day)])
GetStatsSqlite(table, day) ==
    StatsRecord([i \in 1..NumQueries |-> QuerySqlite(i, table, day)])

\* stats[key] = cur.fetchone()[0] for the i-th key
Store(st, i, n) == [st EXCEPT ![StatKeys[i]] = n]

\* a stats handler that hands its request to persist
StatsFirstStep_Persist == "remote"

\* where the stats handlers start: they call get_stats and nothing else
StatsFirstStep == "stats"

\* stats / the /api/stats branch of Handler.do_GET: get_stats starts by
\* reading today's date and zeroing the record
StartStats(t) ==
    /\ MayStart(t)
    /\ Begin(t, "stats", NoEntry, StatsFirstStep)
    /\ xff' = [xff EXCEPT ![t] = NoHeader]
    /\ body' = [body EXCEPT ![t] = NoBody]
    /\ response' = [response EXCEPT ![t] = "none"]

\* one query of the networked branch; an exception ends get_stats, which
\* returns the record as it is
StatsPgQuery(t) ==
    /\ pc[t] = "stats"
    /\ PG_CONN # "None"
    /\ dbUsed' = [dbUsed EXCEPT ![t] = "pg"]
    /\ \E fails \in BOOLEAN :
         IF fails
         THEN /\ fault' = [fault EXCEPT ![t] = @ \cup {"query"}]
              /\ pc' = [pc EXCEPT ![t] = "stats_respond"]
              /\ UNCHANGED << stats, qi >>
         ELSE /\ stats' = [stats EXCEPT ![t] =
                             Store(@, qi[t], QueryPg(qi[t], pgTable, today))]
              /\ qi' = [qi EXCEPT ![t] = @ + 1]
              /\ pc' = [pc EXCEPT ![t] =
                          IF qi[t] = NumQueries THEN "stats_respond" ELSE @]
              /\ UNCHANGED fault
    /\ UNCHANGED << config, initv, conns, DB_LOCK, stores, today, nreq, req,
                    xff, body, entry, called, dbResult, response, statsDay >>

\* the embedded branch of get_stats, entering `with DB_LOCK`
StatsLock(t) ==
    /\ pc[t] = "stats"
    /\ PG_CONN = "None"
    /\ LockFree(DB_LOCK)
    /\ DB_LOCK' = t
    /\ dbUsed' = [dbUsed EXCEPT ![t] = "sqlite"]
    /\ pc' = [pc EXCEPT ![t] = "sq_query"]
    /\ UNCHANGED << config, initv, conns, stores, today, nreq, req, xff, body,
                    entry, called, fault, dbResult, response, statv >>

\* one query of the embedded branch, under the lock; the last query and an
\* exception both leave the with block
StatsSqliteQuery(t) ==
    /\ pc[t] = "sq_query"
    /\ \E fails \in BOOLEAN :
         IF fails
         THEN /\ fault' = [fault EXCEPT ![t] = @ \cup {"query"}]
              /\ pc' = [pc EXCEPT ![t] = "stats_respond"]
              /\ DB_LOCK' = LockAfter(DB_LOCK, TRUE, TRUE)
              /\ UNCHANGED << stats, qi >>
         ELSE /\ stats' = [stats EXCEPT ![t] =
                             Store(@, qi[t],
                              QuerySqlite(qi[t], sqliteTable, statsDay[t]))]
              /\ qi' = [qi EXCEPT ![t] = @ + 1]
              /\ pc' = [pc EXCEPT ![t] =
                          IF qi[t] = NumQueries THEN "stats_respond" ELSE @]
              /\ DB_LOCK' = LockAfter(DB_LOCK, qi[t] = NumQueries, FALSE)
              /\ UNCHANGED fault
    /\ UNCHANGED << config, initv, conns, stores, today, nreq, req, xff, body,
                    entry, called, dbUsed, dbResult, response, statsDay >>

\* JSONResponse(get_stats()) / send_response(200) with the record as body
StatsRespond(t) ==
    /\ pc[t] = "stats_respond"
    /\ response' = [response EXCEPT ![t] = "200"]
    /\ pc' = [pc EXCEPT ![t] = "done"]
    /\ UNCHANGED << config, initv, conns, DB_LOCK, stores, today, nreq, req,
                    xff, body, entry, called, fault, dbUsed, dbResult, statv >>

\* midnight UTC
Tick ==
    /\ today < MaxDay
    /\ today' = today + 1
    /\ UNCHANGED << config, initv, conns, DB_LOCK, stores, nreq, pc, req, xff,
                    body, entry, called, fault, dbUsed, dbResult, response,
                    statv >>

Next ==
    \/ InitPostgres
    \/ InitSqlite
    \/ Tick
    \/ \E t \in Threads :
         \/ StartGet(t)
         \/ StartPost(t)
         \/ StartStats(t)
         \/ SendToLogtail(t)
         \/ AppendFile(t)
         \/ WriteDbPg(t)
         \/ WriteDbLock(t)
         \/ SqliteInsert(t)
         \/ SqliteCommit(t)
         \/ Respond(t)
         \/ StatsPgQuery(t)
         \/ StatsLock(t)
         \/ StatsSqliteQuery(t)
         \/ StatsRespond(t)

Spec == Init /\ [][Next]_vars

(* ------------------------------- claims --------------------------------- *)
Ingest(t) == req[t] \in {"GET", "POST"}
\* the request of t went past normalisation into the fan-out
InPipeline(t) == Ingest(t) /\ response[t] # "400" /\ pc[t] # "idle"
Finished(t) == pc[t] = "done"
IsPrefix(s, q) == Len(s) <= Len(q) /\ s = SubSeq(q, 1, Len(s))
SinkPcs == {"remote", "file", "db", "sq_insert", "sq_commit"}
EmbeddedPcs == {"sq_insert", "sq_commit", "sq_query"}
Quiescent == initpc = "ready" /\ \A t \in Threads : Idle(t)

\* C1: every ingestion request that went through the fan-out is answered
\* 204, whatever the sinks did; no exception reaches the caller.
C1_AcceptedWhateverSinksDo ==
    \A t \in Threads : (InPipeline(t) /\ Finished(t)) => response[t] = "204"

\* C2: every ingestion request invokes each of the three sinks exactly once;
\* a failed sink does not keep the following ones from being invoked.
C2_EverySinkInvokedOnce ==
    \A t \in Threads :
        (InPipeline(t) /\ Finished(t)) =>
            /\ Len(called[t]) = Len(SinkOrder)
            /\ \A s \in {"remote", "file", "db"} :
                 Cardinality({i \in 1..Len(called[t]) : called[t][i] = s}) = 1

\* C3: the sinks of a request are attempted in the order remote, file,
\* database, and a response is sent only once all three attempts are over:
\* no response exists while a sink attempt of the request is pending.
C3_OrderedThenResponse ==
    \A t \in Threads :
        InPipeline(t) =>
            /\ IsPrefix(called[t], SinkOrder)
            /\ pc[t] \in SinkPcs \cup {"respond"} => response[t] = "none"
            /\ response[t] = "204" =>
                 /\ called[t] = SinkOrder
                 /\ dbResult[t] # "none"
                 /\ DB_LOCK # t
                 /\ Finished(t)

\* a request answered 204 although its database attempt ended with an error
C3_Witness ==
    \E t \in Threads :
        /\ InPipeline(t) /\ response[t] = "204"
        /\ called[t] = SinkOrder
        /\ dbResult[t] = "error"

ExactlyOneBackend ==
    (PG_CONN # "None" /\ SQLITE_CONN = "None")
        \/ (PG_CONN = "None" /\ SQLITE_CONN # "None")

\* C4: once initialisation is over exactly one of PG_CONN and SQLITE_CONN is
\* set, and no step of any request changes either of them.
C4_OneBackendForLife ==
    /\ [](initpc = "ready" => ExactlyOneBackend)
    /\ [][initpc = "ready" => UNCHANGED << PG_CONN, SQLITE_CONN >>]_vars

\* the networked backend is the active one and a request has failed on it
C4_Witness ==
    /\ initpc = "ready" /\ PG_CONN # "None" /\ SQLITE_CONN = "None"
    /\ \E t \in Threads : Finished(t) /\ dbResult[t] = "error"
    /\ \E t \in Threads : Finished(t) /\ req[t] = "stats" /\ fault[t] = {}

\* C5: when the Postgres attempt fails at any of its steps, initialisation
\* goes on without raising, the embedded connection becomes the active one,
\* and every later insert and stats query runs on it and, unless the
\* embedded engine itself fails, succeeds.
C5_FallbackToEmbedded ==
    pgInit = "failed" =>
        /\ initpc # "raised_pg"
        /\ PG_CONN = "None"
        /\ initpc = "ready" => SQLITE_CONN = "conn"
        /\ pgTable = << >>
        /\ \A t \in Threads :
             /\ dbUsed[t] # "pg"
             /\ (Ingest(t) /\ dbResult[t] # "none"
                   /\ fault[t] \cap {"db", "commit"} = {})
                  => dbResult[t] = "ok"
             /\ (req[t] = "stats" /\ pc[t] \in {"stats_respond", "done"}
                   /\ "query" \notin fault[t])
                  => qi[t] = NumQueries + 1
        /\ Cardinality({t \in Threads : dbResult[t] = "ok"})
             <= Len(sqliteTable)

\* after a failed Postgres attempt an insert went into the embedded table
\* and a stats request counted it
C5_Witness ==
    /\ pgInit = "failed"
    /\ \E t \in Threads : Finished(t) /\ dbResult[t] = "ok"
    /\ \E t \in Threads :
         /\ Finished(t) /\ req[t] = "stats" /\ fault[t] = {}
         /\ stats[t].totalEvents = 1

\* C6: a thread executes against the embedded connection only while it
\* holds DB_LOCK, so at most one thread does at a time.
C6_EmbeddedAccessUnderLock ==
    /\ \A t \in Threads : pc[t] \in EmbeddedPcs <=> DB_LOCK = t
    /\ Cardinality({t \in Threads : pc[t] \in EmbeddedPcs}) <= 1
    /\ \A t \in Threads : pc[t] \in EmbeddedPcs => SQLITE_CONN = "conn"

\* one thread is inside the INSERT while another waits to run its queries
C6_Witness ==
    \E t, u \in Threads :
        /\ t # u
        /\ pc[t] = "sq_insert" /\ DB_LOCK = t
        /\ pc[u] = "stats" /\ PG_CONN = "None"

\* the table of the active backend, and what a get_stats call whose queries
\* all succeed returns in the current state
ActiveTable == IF PG_CONN # "None" THEN pgTable ELSE sqliteTable
StatsNow ==
    IF PG_CONN # "None" THEN GetStatsPg(pgTable, today)
    ELSE GetStatsSqlite(sqliteTable, today)

\* the events a table holds: the payload column of its rows
Payloads(table) == [i \in 1..Len(table) |-> table[i].payload]

\* the counters as the specification defines them over a list of events; the
\* timestamp of an event falls on the UTC date ts.day
CountEvents(es, matching) ==
    Cardinality({i \in 1..Len(es) : es[i] \in matching})
EventsOfKind(es, kind) == {e \in Rows(es) : Get(e.event, "") = kind}
ExpectedStats(es, day) ==
    [totalEvents |-> Len(es),
     visits |-> CountEvents(es, EventsOfKind(es, "visit")),
     clicks |-> CountEvents(es, EventsOfKind(es, "click")),
     exits |-> CountEvents(es, EventsOfKind(es, "exit")),
     uniqueSessions |->
         Cardinality({Get(es[i].sessionId, "") : i \in 1..Len(es)}),
     visitsToday |->
         CountEvents(es, {e \in EventsOfKind(es, "visit") : e.ts.day = day}),
     clicksToday |->
         CountEvents(es, {e \in EventsOfKind(es, "click") : e.ts.day = day})]

\* C7: after any sequence of successful inserts get_stats returns the number
\* of inserted events, of visits, clicks and exits among them, of distinct
\* session ids, and of the visits and clicks whose timestamp falls on today's
\* UTC date.
C7_StatsCountInsertedEvents ==
    Quiescent => StatsNow = ExpectedStats(Payloads(ActiveTable), today)

\* C8: whenever a query of get_stats fails, the record returned is the zero
\* record, also when earlier queries of the call had succeeded.
C8_ZeroRecordOnFailure ==
    \A t \in Threads :
        (req[t] = "stats" /\ "query" \in fault[t]) => stats[t] = ZeroStats

\* C9: one event with the server's ISO-8601 timestamp, inserted by write_db
\* into an empty store of either variant, is counted once by each predicate
\* it matches and by no other.
C9_RoundTripEitherBackend ==
    \A t \in Threads :
        ( /\ nreq = 1 /\ InPipeline(t) /\ response[t] = "204"
          /\ entry[t].ts.fmt = "iso"
          /\ fault[t] \cap {"db", "commit"} = {} )
        => StatsNow = ExpectedStats(<< entry[t] >>, today)

\* C10: the same ingestion requests give the same seven counters in the
\* networked variant as in the embedded one.
C10_BackendsAgree ==
    initpc = "ready" =>
        GetStatsPg(WriteAllPg(logFile), today)
            = GetStatsSqlite(WriteAllSqlite(logFile), today)

\* C11: the timestamp, method and requestPath of an event come from the
\* transport context: a POST body that carries keys named ts, method or
\* requestPath does not change them, the record built for the request holds
\* the server's ISO-8601 timestamp, "POST" and the path of the request.
C11_TransportFieldsNotOverridden ==
    \A t \in Threads :
        (req[t] = "POST" /\ InPipeline(t)) =>
            /\ entry[t].ts \in { IsoTs(d) : d \in Days }
            /\ entry[t].method = "POST"
            /\ entry[t].requestPath = VisitPath

\* the record holds every field of an event
FullyPopulated(e) ==
    /\ \A v \in { e.method, e.requestPath, e.path, e.referrer, e.userAgent,
                  e.event, e.sessionId, e.utm } : v # Absent
    /\ e.ts # NoTs
    /\ e.sessionStarted.present

\* C12: every event handed to a sink is fully populated: the record the
\* Remote Sink and the File Sink receive holds path, referrer, userAgent,
\* event, sessionId and utm (as "" when the caller sent none) and
\* sessionStarted (as 0), also for a POST with the body {}.
C12_SinksSeeFullyPopulatedEvent ==
    /\ \A t \in Threads :
         (InPipeline(t) /\ called[t] # << >>) => FullyPopulated(entry[t])
    /\ \A i \in 1..Len(logFile) : FullyPopulated(logFile[i])

\* C13: a POST whose body is malformed JSON, or JSON that is no object, is
\* neither rejected nor dropped in either server: it is treated as the empty
\* payload, handed to all three sinks, and the request is accepted.
C13_UnparseableBodyAccepted ==
    \A t \in Threads :
        (req[t] = "POST" /\ body[t].kind \in {"malformed", "nonobject"}) =>
            /\ response[t] # "400"
            /\ InPipeline(t) =>
                   entry[t] = PostEntry(server, entry[t].ts.day, xff[t],
                                        EmptyBody("object"))
            /\ (Finished(t) /\ "file" \notin fault[t]) =>
                   /\ called[t] = SinkOrder
                   /\ response[t] = "204"

\* the client address the claim describes: the first comma-separated value
\* of the forwarding header, trimmed, and the peer address exactly when the
\* header is missing or that value is empty
ForwardedFor(h, peer) ==
    IF h # NoHeader /\ Head(h).text # "" THEN Head(h).text ELSE peer

\* C14: in both servers the ip of an event is the first comma-separated
\* value of the forwarding header, trimmed, and the raw peer address exactly
\* when the header is missing or its first value is empty.
C14_ClientIpFromForwardingHeader ==
    \A t \in Threads :
        InPipeline(t) => entry[t].ip = ForwardedFor(xff[t], PeerAddr)

\* the lines of the log file that hold the entry e
LinesOf(e) == { i \in 1..Len(logFile) : logFile[i] = e }
DbPcs == {"db", "sq_insert", "sq_commit"}

\* C15: write_db never raises past its caller, in either variant: when the
\* INSERT or the commit fails the failure is caught and reported, the
\* handler goes on to its response, and the line the same request appended
\* to the log file stays where it is.
C15_WriteDbNeverRaises ==
    /\ [](\A t \in Threads :
            (InPipeline(t) /\ dbResult[t] = "error") =>
                /\ pc[t] \in {"respond", "done"}
                /\ response[t] \in {"none", "204"}
                /\ "file" \notin fault[t] => LinesOf(entry[t]) # {})
    /\ [][\A t \in Threads :
            (pc[t] \in DbPcs /\ pc'[t] # pc[t]) => logFile' = logFile]_vars

\* the commit of a request failed after its line was appended; the request
\* was answered 204 and the line is in the file
C15_Witness ==
    \E t \in Threads :
        /\ InPipeline(t) /\ Finished(t) /\ response[t] = "204"
        /\ "commit" \in fault[t]
        /\ LinesOf(entry[t]) # {}

\* the rows of the embedded table a request can observe: the row of an
\* INSERT that is not committed yet is seen by its own thread only, which
\* holds DB_LOCK until the commit is over
VisibleRows ==
    IF \E t \in Threads : pc[t] = "sq_commit"
    THEN SubSeq(sqliteTable, 1, Len(sqliteTable) - 1) ELSE sqliteTable
Occurrences(seq, x) == Cardinality({ i \in 1..Len(seq) : seq[i] = x })
\* q is s, or s with one element appended
GrowsByAtMostOne(s, q) == IsPrefix(s, q) /\ Len(q) <= Len(s) + 1

\* the attempt of the request of t at sink s is over and failed
SinkFailed(t, s) ==
    IF s = "db" THEN dbResult[t] = "error" ELSE s \in fault[t]

Steps(t) == pc'[t] # pc[t] \/ qi'[t] # qi[t] \/ fault'[t] # fault[t]

\* C17: a stats request bypasses the ingestion pipeline: it invokes neither
\* the Remote Sink nor the File Sink (nor write_db), and none of its steps
\* changes the visits tables, the log file or the selected backend.
C17_StatsBypassPipeline ==
    /\ [](\A t \in Threads :
            req[t] = "stats" =>
                /\ called[t] = << >>
                /\ pc[t] \notin SinkPcs)
    /\ [][\A t \in Threads :
            (req'[t] = "stats" /\ Steps(t)) =>
                UNCHANGED << stores, conns >>]_vars

\* a stats request ran to its end, on either backend, while the table and
\* the log file each held an event
C17_Witness ==
    \E t \in Threads :
        /\ req[t] = "stats" /\ Finished(t) /\ response[t] = "200"
        /\ Len(ActiveTable) = 1 /\ Len(logFile) = 1
        /\ stats[t].totalEvents = 1

\* C18: with the embedded backend the counters of one successful get_stats
\* call describe one state of the visits table, whatever inserts other
\* threads attempt meanwhile: while the queries run, every counter already
\* stored is what its query gives on the table as it is now; the finished
\* record is the seven counts of one earlier content of the table, and in
\* it visits + clicks + exits <= totalEvents, visitsToday <= visits and
\* clicksToday <= clicks.
C18_EmbeddedStatsOneSnapshot ==
    \A t \in Threads :
        (req[t] = "stats" /\ dbUsed[t] = "sqlite") =>
            /\ pc[t] = "sq_query" =>
                 \A i \in 1..(qi[t] - 1) :
                     stats[t][StatKeys[i]]
                         = QuerySqlite(i, sqliteTable, statsDay[t])
            /\ (pc[t] \in {"stats_respond", "done"} /\ fault[t] = {}) =>
                 /\ \E n \in 0..Len(VisibleRows) :
                        stats[t] = GetStatsSqlite(SubSeq(VisibleRows, 1, n),
                                                  statsDay[t])
                 /\ stats[t].visits + stats[t].clicks + stats[t].exits
                        <= stats[t].totalEvents
                 /\ stats[t].visitsToday <= stats[t].visits
                 /\ stats[t].clicksToday <= stats[t].clicks

\* a get_stats call is between two of its queries while the insert of
\* another request waits for the lock
C18_Witness ==
    \E t, u \in Threads :
        /\ t # u
        /\ req[t] = "stats" /\ pc[t] = "sq_query" /\ qi[t] > 1
        /\ Ingest(u) /\ pc[u] = "db"

(* ------------------ the embedded backend, fairly scheduled --------------- *)
\* a process started without a connection string: module initialisation
\* leaves PG_CONN unset and opens the embedded database
InitEmbedded == Init /\ ~POSTGRES_DSN

\* the steps of the handler thread t once its request is accepted
HandlerStep(t) ==
    \/ SendToLogtail(t)
    \/ AppendFile(t)
    \/ WriteDbLock(t)
    \/ SqliteInsert(t)
    \/ SqliteCommit(t)
    \/ Respond(t)
    \/ StatsLock(t)
    \/ StatsSqliteQuery(t)
    \/ StatsRespond(t)

NextEmbedded ==
    \/ InitPostgres
    \/ InitSqlite
    \/ \E t \in Threads :
         \/ StartGet(t)
         \/ StartPost(t)
         \/ StartStats(t)
         \/ HandlerStep(t)

\* the interpreter keeps scheduling every thread that can take a step: a
\* handler that is not waiting for DB_LOCK goes on, and one that waits goes
\* on once the lock stays free
FairSpec ==
    /\ InitEmbedded
    /\ [][NextEmbedded]_vars
    /\ \A t \in Threads : WF_vars(HandlerStep(t))

\* the request of t is about to enter `with DB_LOCK`
WaitsForLock(t) == pc[t] \in {"db", "stats"} /\ PG_CONN = "None"

\* C19: DB_LOCK is released on every exit from the embedded blocks of
\* write_db and get_stats, also when the INSERT, the commit or a query
\* raises: the lock is never held by a thread outside these blocks, and
\* under fair scheduling a request that waits for the lock gets it and
\* runs to its end.
C19_LockReleasedAndGranted ==
    /\ [](\A t \in Threads : DB_LOCK = t => pc[t] \in EmbeddedPcs)
    /\ [][\A t \in Threads :
            (pc[t] \in EmbeddedPcs /\ pc'[t] \notin EmbeddedPcs) =>
                DB_LOCK' = 0]_vars
    /\ \A t \in Threads : WaitsForLock(t) ~> DB_LOCK = t
    /\ \A t \in Threads : WaitsForLock(t) ~> Finished(t)

\* the INSERT of one request raised and another request holds the lock
\* afterwards
C19_Witness ==
    \E t, u \in Threads :
        /\ t # u
        /\ "db" \in fault[t] /\ pc[t] \in {"respond", "done"}
        /\ DB_LOCK = u /\ pc[u] \in EmbeddedPcs

\* the handler of t is inside the urlopen call of the Remote Sink
InRemoteCall(t) == Ingest(t) /\ pc[t] = "remote" /\ LOGTAIL_TOKEN

\* C20: no thread holds DB_LOCK during its Remote Sink call or its File Sink
\* append, the lock being taken only after both are over; so while the
\* Remote Sink call of one request waits for a slow collector, the insert
\* or the stats query of another request is not held up: a request at its
\* database step can take the step, and a request that arrives is served.
C20_SlowCollectorDelaysNoOne ==
    /\ \A t \in Threads :
         /\ pc[t] \in {"remote", "file"} => DB_LOCK # t
         /\ (Ingest(t) /\ DB_LOCK = t) => called[t] = SinkOrder
    /\ \A t, u \in Threads :
         (t # u /\ InRemoteCall(t)) =>
             /\ (Ingest(u) /\ pc[u] = "db") =>
                    ENABLED (WriteDbPg(u) \/ WriteDbLock(u))
             /\ (req[u] = "stats" /\ pc[u] = "stats") =>
                    ENABLED (StatsPgQuery(u) \/ StatsLock(u))
             /\ (Idle(u) /\ nreq < MaxRequests) =>
                    ENABLED StartGet(u) /\ ENABLED StartStats(u)

=============================================================================
